---- MODULE Spec2Model ----
(***************************************************************************)
(* Turtle's Adventure (src/turtle_adventure.py): the per-tick simulation   *)
(* of the Player, the Waypoint, Home, the four enemy classes, the          *)
(* EnemyGenerator's timers and the TurtleAdventureGame coordinator.        *)
(*                                                                         *)
(* Coordinates are Python numbers (ints and floats).  The model keeps      *)
(* every coordinate in tenths of a world unit (Scale), the resolution of   *)
(* the one non-integer literal of the program, the Chaser's 1.2 step;      *)
(* a normalised step is rounded to the nearest tenth.                      *)
(***************************************************************************)
EXTENDS Integers, Sequences, FiniteSets, TLC

VARIABLES
    screen,     \* [w, h]: screen_width, screen_height of TurtleAdventureGame
    home,       \* [x, y, size]: the Home element
    running,    \* Game's running flag (cleared by stop())
    banners,    \* the texts game_over_win / game_over_lose drew, in order
    player,     \* [x, y]: the turtle's position
    waypoint,   \* [active, x, y]
    elements,   \* Game's element collection, in registration order
    enemies,    \* TurtleAdventureGame.enemies
    pending,    \* one-shot timers registered with after() and not yet fired
    rng,        \* [seed, n]: the random module's stream and the draws taken
    tick,       \* history: ticks dispatched since the last click (or the start)
    clicks,     \* history: number of pointer clicks so far
    ret         \* <<result>> of a direct call of hits_player or contains, else <<>>

vars == <<screen, home, running, banners, player, waypoint, elements, enemies,
          pending, rng, tick, clicks, ret>>

-----------------------------------------------------------------------------
(* Bounds of the model *)

\* the small and the large playfield the game is constructed with
SmallW == 170
SmallH == 100
LargeW == 800
LargeH == 500
\* ticks dispatched after a click (or the start) in the whole game
MaxTick == 4
\* ticks dispatched after a click (or the start) in an enemy's scenario
TickCap == 600
\* ticks dispatched after a click (or the start) in the Player's scenarios
PlayerTickCap == 150
\* pointer clicks in one run
MaxClicks == 1
\* number of random streams (seeds) beyond the first
MaxSeed == 1

-----------------------------------------------------------------------------
(* Arithmetic *)

Scale == 10

Abs(n) == IF n < 0 THEN -n ELSE n

Min(a, b) == IF a < b THEN a ELSE b

Max(a, b) == IF a < b THEN b ELSE a

\* nearest integer to a / b, b > 0 (what float division gives, to a tenth)
RoundDiv(a, b) == (2 * a + b) \div (2 * b)

\* least integer >= a / b, b > 0
CeilDiv(a, b) == -((-a) \div b)

\* F(v) with v evaluated once, before F is applied
Bind(v, F(_)) == CHOOSE r \in {F(x) : x \in {v}} : TRUE

RECURSIVE SqrtIter(_, _, _)
SqrtIter(n, lo, hi) ==
    IF lo >= hi THEN lo
    ELSE Bind((lo + hi + 1) \div 2,
              LAMBDA mid : IF mid * mid <= n THEN SqrtIter(n, mid, hi)
                                            ELSE SqrtIter(n, lo, mid - 1))

\* floor of the square root, n in 0 .. 2^31 - 1
ISqrt(n) == SqrtIter(n, 0, Min(n, 46340))

\* 100 * sqrt(d2): the magnitude (x ** 2 + y ** 2) ** 0.5 in hundredths
Mag100(d2) == IF d2 <= 200000 THEN ISqrt(d2 * 10000) ELSE 100 * ISqrt(d2)

Dist2(ax, ay, bx, by) == (ax - bx) * (ax - bx) + (ay - by) * (ay - by)

-----------------------------------------------------------------------------
(* Waypoint *)

activate(x, y) == [active |-> TRUE, x |-> x, y |-> y]

deactivate(w) == [w EXCEPT !.active = FALSE]

-----------------------------------------------------------------------------
(* Home *)

HomeInit(s) == [x |-> (s.w - 100) * Scale, y |-> (s.h \div 2) * Scale, size |-> 20]

\* size / 2 in tenths
Half(size) == (size * Scale) \div 2

contains_strict(h, x, y) ==
    /\ h.x - Half(h.size) < x /\ x < h.x + Half(h.size)
    /\ h.y - Half(h.size) < y /\ y < h.y + Half(h.size)

contains(h, x, y) ==
    LET x1 == h.x - Half(h.size)
        x2 == h.x + Half(h.size)
        y1 == h.y - Half(h.size)
        y2 == h.y + Half(h.size)
    IN (x1 <= x /\ x <= x2) /\ (y1 <= y /\ y <= y2)

-----------------------------------------------------------------------------
(* The coordinator's terminal calls.  g is the game during one handler:    *)
(* [screen, home, running, banners, player, waypoint, elements].           *)

stop(g) == [g EXCEPT !.running = FALSE]

game_over_win(g) == [stop(g) EXCEPT !.banners = Append(@, "You Win")]

game_over_lose(g) == [stop(g) EXCEPT !.banners = Append(@, "You Lose")]

-----------------------------------------------------------------------------
(* Player *)

PlayerSpeed == 5

\* turtle.setheading(turtle.towards(wx, wy)); turtle.forward(speed)
\* towards() of the turtle's own position is heading 0 (atan2(0, 0) = 0)
forward(p, wx, wy, speed) ==
    LET dx == wx - p.x
        dy == wy - p.y
        mag == Mag100(dx * dx + dy * dy)
    IN IF mag = 0
       THEN [x |-> p.x + speed * Scale, y |-> p.y]
       ELSE [x |-> p.x + RoundDiv(speed * Scale * dx * 100, mag),
             y |-> p.y + RoundDiv(speed * Scale * dy * 100, mag)]

\* mutant: the arrival test with the comparison turned round
arrived_beyond(p, w, speed) == Dist2(p.x, p.y, w.x, w.y) > (speed * Scale) * (speed * Scale)

\* turtle.distance(wx, wy) < speed
arrived(p, w, speed) == Dist2(p.x, p.y, w.x, w.y) < (speed * Scale) * (speed * Scale)

\* mutant: the motion code run without the test of waypoint.is_active
Player_update_unguarded(g) ==
    LET g1 == IF contains(g.home, g.player.x, g.player.y)
              THEN game_over_win(g) ELSE g
        p == forward(g1.player, g1.waypoint.x, g1.waypoint.y, PlayerSpeed)
    IN [g1 EXCEPT !.player = p,
                  !.waypoint = IF arrived(p, g1.waypoint, PlayerSpeed)
                               THEN deactivate(@) ELSE @]

Player_update(g) ==
    LET g1 == IF contains(g.home, g.player.x, g.player.y)
              THEN game_over_win(g) ELSE g
    IN IF g1.waypoint.active
       THEN LET p == forward(g1.player, g1.waypoint.x, g1.waypoint.y, PlayerSpeed)
            IN [g1 EXCEPT !.player = p,
                          !.waypoint = IF arrived(p, g1.waypoint, PlayerSpeed)
                                       THEN deactivate(@) ELSE @]
       ELSE g1

-----------------------------------------------------------------------------
(* Enemy: the state every enemy class holds.  ox, oy are history: the      *)
(* position the generator gave the enemy.                                  *)

Element(kind) ==
    [kind |-> kind, size |-> 0, color |-> "", x |-> 0, y |-> 0, speed |-> 0,
     state |-> "", state_height |-> "", detection |-> 0, detected |-> FALSE,
     ox |-> 0, oy |-> 0]

Enemy(kind, size, color) == [Element(kind) EXCEPT !.size = size, !.color = color]

EnemyKinds == {"Enemy_walk_random", "Chasing_Enemy", "FencingEnemy", "Stealth_Circle"}

hits_player_inclusive(e, p) ==
    /\ e.x - Half(e.size) <= p.x /\ p.x <= e.x + Half(e.size)
    /\ e.y - Half(e.size) <= p.y /\ p.y <= e.y + Half(e.size)

hits_player(e, p) ==
    (e.x - Half(e.size) < p.x /\ p.x < e.x + Half(e.size))
    /\
    (e.y - Half(e.size) < p.y /\ p.y < e.y + Half(e.size))

\* the tail of every enemy's update: store the enemy, test the hit
finish_update(g, i, e) ==
    LET g1 == [g EXCEPT !.elements[i] = e]
    IN IF hits_player(e, g1.player) THEN game_over_lose(g1) ELSE g1

-----------------------------------------------------------------------------
(* Enemy_walk_random *)

Enemy_walk_random(size, color, speed) ==
    [Enemy("Enemy_walk_random", size, color) EXCEPT
        !.state = "moving_right", !.state_height = "moving_down", !.speed = speed]

move_to(e, x, y) == [e EXCEPT !.x = x, !.y = y]

winfo_width(s) == s.w * Scale

winfo_height(s) == s.h * Scale

\* mutant: the walker turns as soon as its hit-box touches the right edge
Walk_moving_right_early(e, s) ==
    LET e1 == move_to(e, e.x + e.speed * Scale, e.y)
    IN IF e1.x > winfo_width(s) - Half(e.size) THEN [e1 EXCEPT !.state = "moving_left"] ELSE e1

Walk_moving_right(e, s) ==
    LET e1 == move_to(e, e.x + e.speed * Scale, e.y)
    IN IF e1.x > winfo_width(s) THEN [e1 EXCEPT !.state = "moving_left"] ELSE e1

\* mutant: the walker turns only a hit-box width beyond the left edge
Walk_moving_left_late(e, s) ==
    LET e1 == move_to(e, e.x - e.speed * Scale, e.y)
    IN IF e1.x < -(e.size * Scale) THEN [e1 EXCEPT !.state = "moving_right"] ELSE e1

Walk_moving_left(e, s) ==
    LET e1 == move_to(e, e.x - e.speed * Scale, e.y)
    IN IF e1.x < 0 THEN [e1 EXCEPT !.state = "moving_right"] ELSE e1

Walk_moving_up(e, s) ==
    LET e1 == move_to(e, e.x, e.y + e.speed * Scale)
    IN IF e1.y > winfo_height(s) THEN [e1 EXCEPT !.state_height = "moving_down"] ELSE e1

\* mutant: moving_down as the direction of larger y, left above the height
Walk_moving_down_increasing(e, s) ==
    LET e1 == move_to(e, e.x, e.y + e.speed * Scale)
    IN IF e1.y > winfo_height(s) THEN [e1 EXCEPT !.state_height = "moving_up"] ELSE e1

Walk_moving_down(e, s) ==
    LET e1 == move_to(e, e.x, e.y - e.speed * Scale)
    IN IF e1.y < 0 THEN [e1 EXCEPT !.state_height = "moving_up"] ELSE e1

Walk_step(e, s) ==
    LET e1 == [e EXCEPT !.x = @ + 1 * Scale, !.y = @ + 1 * Scale]
        e2 == IF e1.state = "moving_right" THEN Walk_moving_right(e1, s)
                                           ELSE Walk_moving_left(e1, s)
    IN IF e2.state_height = "moving_down" THEN Walk_moving_down(e2, s)
                                          ELSE Walk_moving_up(e2, s)

Walk_update(g, i) == finish_update(g, i, Walk_step(g.elements[i], g.screen))

-----------------------------------------------------------------------------
(* Chasing_Enemy *)

Chasing_Enemy(size, color) == Enemy("Chasing_Enemy", size, color)

\* 1.2 world units, in tenths
ChaseStep == (12 * Scale) \div 10

\* mutant: the direction vector with its subtraction turned round
chasing_to_player_away(e, p) ==
    LET direction_x == e.x - p.x
        direction_y == e.y - p.y
        mag == Mag100(direction_x * direction_x + direction_y * direction_y)
    IN IF mag # 0
       THEN [e EXCEPT !.x = @ + RoundDiv(ChaseStep * direction_x * 100, mag),
                      !.y = @ + RoundDiv(ChaseStep * direction_y * 100, mag)]
       ELSE e

\* mutant: a zero direction vector taken as heading 0, one step along x
chasing_to_player_heading0(e, p) ==
    LET direction_x == p.x - e.x
        direction_y == p.y - e.y
        mag == Mag100(direction_x * direction_x + direction_y * direction_y)
    IN IF mag # 0
       THEN [e EXCEPT !.x = @ + RoundDiv(ChaseStep * direction_x * 100, mag),
                      !.y = @ + RoundDiv(ChaseStep * direction_y * 100, mag)]
       ELSE [e EXCEPT !.x = @ + ChaseStep]

chasing_to_player(e, p) ==
    LET direction_x == p.x - e.x
        direction_y == p.y - e.y
        mag == Mag100(direction_x * direction_x + direction_y * direction_y)
    IN IF mag # 0
       THEN [e EXCEPT !.x = @ + RoundDiv(ChaseStep * direction_x * 100, mag),
                      !.y = @ + RoundDiv(ChaseStep * direction_y * 100, mag)]
       ELSE e

Chase_update(g, i) ==
    finish_update(g, i, chasing_to_player(g.elements[i], g.player))

-----------------------------------------------------------------------------
(* FencingEnemy *)

FencingEnemy(size, color, speed) ==
    [Enemy("FencingEnemy", size, color) EXCEPT !.state = "moving_right", !.speed = speed]

Fence_moving_right(e, h) ==
    IF e.x < h.x + Half(h.size) THEN move_to(e, e.x + e.speed * Scale, e.y)
    ELSE [e EXCEPT !.state = "moving_down"]

\* mutant: the fencer turns in the tick in which it reaches the lower edge
Fence_moving_down_turning(e, h) ==
    IF e.y < h.y + Half(h.size)
    THEN LET e1 == move_to(e, e.x, e.y + e.speed * Scale)
         IN IF e1.y < h.y + Half(h.size) THEN e1 ELSE [e1 EXCEPT !.state = "moving_left"]
    ELSE [e EXCEPT !.state = "moving_left"]

Fence_moving_down(e, h) ==
    IF e.y < h.y + Half(h.size) THEN move_to(e, e.x, e.y + e.speed * Scale)
    ELSE [e EXCEPT !.state = "moving_left"]

\* mutant: the left bound tested with >= instead of >
Fence_moving_left_inclusive(e, h) ==
    IF e.x >= h.x - Half(h.size) THEN move_to(e, e.x - e.speed * Scale, e.y)
    ELSE [e EXCEPT !.state = "moving_up"]

Fence_moving_left(e, h) ==
    IF e.x > h.x - Half(h.size) THEN move_to(e, e.x - e.speed * Scale, e.y)
    ELSE [e EXCEPT !.state = "moving_up"]

Fence_moving_up(e, h) ==
    IF e.y > h.y - Half(h.size) THEN move_to(e, e.x, e.y - e.speed * Scale)
    ELSE [e EXCEPT !.state = "moving_right"]

Fence_step(e, h) ==
    CASE e.state = "moving_right" -> Fence_moving_right(e, h)
      [] e.state = "moving_down"  -> Fence_moving_down(e, h)
      [] e.state = "moving_left"  -> Fence_moving_left(e, h)
      [] e.state = "moving_up"    -> Fence_moving_up(e, h)

Fence_update(g, i) == finish_update(g, i, Fence_step(g.elements[i], g.home))

-----------------------------------------------------------------------------
(* Stealth_Circle *)

Stealth_Circle(size, color, speed) ==
    [Enemy("Stealth_Circle", size, color) EXCEPT
        !.speed = speed, !.detection = 100, !.detected = FALSE]

\* mutant: a detection radius of a tenth of self.detection, inside the hit-box
is_near_by_tenth(e, p) ==
    Dist2(p.x, p.y, e.x, e.y) < ((e.detection * Scale) \div 10) * ((e.detection * Scale) \div 10)

is_near_by(e, p) ==
    Dist2(p.x, p.y, e.x, e.y) < (e.detection * Scale) * (e.detection * Scale)

\* mutant: the sentinel never goes back to dormant
Stealth_step_latched(e, p) ==
    IF is_near_by(e, p) /\ ~e.detected THEN [e EXCEPT !.detected = TRUE] ELSE e

Stealth_step(e, p) ==
    LET e1 == IF is_near_by(e, p) /\ ~e.detected
              THEN [e EXCEPT !.detected = TRUE] ELSE e
    IN IF e1.detected /\ ~is_near_by(e1, p)
       THEN [e1 EXCEPT !.detected = FALSE] ELSE e1

Stealth_update(g, i) == finish_update(g, i, Stealth_step(g.elements[i], g.player))

-----------------------------------------------------------------------------
(* One tick: Game.animate calls update() on every element in registration  *)
(* order; stop() clears the running flag and the loop runs on to its end.  *)

update(g, i) ==
    LET k == g.elements[i].kind
    IN CASE k = "Player"            -> Player_update(g)
         [] k = "Enemy_walk_random" -> Walk_update(g, i)
         [] k = "Chasing_Enemy"     -> Chase_update(g, i)
         [] k = "FencingEnemy"      -> Fence_update(g, i)
         [] k = "Stealth_Circle"    -> Stealth_update(g, i)
         [] OTHER                   -> g      \* Waypoint, Home: pass

RECURSIVE animate_from(_, _)
animate_from(g, i) ==
    IF i > Len(g.elements) THEN g
    ELSE Bind(update(g, i), LAMBDA g1 : animate_from(g1, i + 1))

animate(g) == animate_from(g, 1)

Game ==
    [screen |-> screen, home |-> home, running |-> running, banners |-> banners,
     player |-> player, waypoint |-> waypoint, elements |-> elements]

-----------------------------------------------------------------------------
(* The random module: one stream per seed, consumed in call order *)

StreamValue(seed, n) == seed * 389 + n * 211 + n * n * 17 + 5

\* random.randint(lo, hi) as the (k+1)-th draw after the draws r has taken
randint(r, k, lo, hi) == lo + (StreamValue(r.seed, r.n + k) % (hi - lo + 1))

-----------------------------------------------------------------------------
(* EnemyGenerator *)

add_element(elems, e) == Append(elems, e)

RECURSIVE add_elements(_, _)
add_elements(elems, new) ==
    IF new = <<>> THEN elems
    ELSE add_elements(add_element(elems, Head(new)), Tail(new))

place(e, x, y) == [e EXCEPT !.x = x, !.y = y, !.ox = x, !.oy = y]

\* EnemyGenerator.position with the (k+1)-th and (k+2)-th next draws
position(e, r, k) ==
    place(e, randint(r, k, 200, 600) * Scale, randint(r, k + 1, 100, 500) * Scale)

position_fencing(e, h) == place(e, h.x - Half(h.size), h.y - Half(h.size))

\* the generator's four timers, in registration order
Schedule ==
    << [delay |-> 1000, action |-> "create_random_enemy"],
       [delay |-> 1500, action |-> "create_chasing_enemy"],
       [delay |-> 3000, action |-> "create_stealth_circle"],
       [delay |-> 3500, action |-> "create_fencing_enemy"] >>

\* 5 walkers: the constructor draws the speed, position() draws x and y
create_random_enemy(elems, r, h) ==
    [elements |-> add_elements(elems,
        [i \in 1..5 |->
            position(Enemy_walk_random(20, "Blue", randint(r, 3 * (i - 1), 6, 10)),
                     r, 3 * (i - 1) + 1)]),
     rng |-> [r EXCEPT !.n = @ + 15]]

\* mutant: the chaser batch built by a loop over range(5)
create_chasing_enemy_five(elems, r, h) ==
    [elements |-> add_elements(elems,
        [i \in 1..5 |-> position(Chasing_Enemy(20, "red"), r, 2 * (i - 1))]),
     rng |-> [r EXCEPT !.n = @ + 10]]

\* 4 chasers
create_chasing_enemy(elems, r, h) ==
    [elements |-> add_elements(elems,
        [i \in 1..4 |-> position(Chasing_Enemy(20, "red"), r, 2 * (i - 1))]),
     rng |-> [r EXCEPT !.n = @ + 8]]

\* 3 fencers of speed 1, 3 and 4 on Home's corner
create_fencing_enemy(elems, r, h) ==
    [elements |-> add_elements(elems,
        << position_fencing(FencingEnemy(10, "yellow", 1), h),
           position_fencing(FencingEnemy(10, "yellow", 3), h),
           position_fencing(FencingEnemy(10, "yellow", 4), h) >>),
     rng |-> r]

\* 5 sentinels: the constructor draws a speed, then add_element, then position()
create_stealth_circle(elems, r, h) ==
    [elements |-> add_elements(elems,
        [i \in 1..5 |->
            position(Stealth_Circle(50, "white", randint(r, 3 * (i - 1), 6, 10)),
                     r, 3 * (i - 1) + 1)]),
     rng |-> [r EXCEPT !.n = @ + 15]]

run_timer(action, elems, r, h) ==
    CASE action = "create_random_enemy"   -> create_random_enemy(elems, r, h)
      [] action = "create_chasing_enemy"  -> create_chasing_enemy(elems, r, h)
      [] action = "create_stealth_circle" -> create_stealth_circle(elems, r, h)
      [] action = "create_fencing_enemy"  -> create_fencing_enemy(elems, r, h)

\* the timer that is due first: least delay, then registration order
next_timer(p) ==
    CHOOSE i \in 1..Len(p) :
        \A j \in 1..Len(p) : p[i].delay < p[j].delay \/ (p[i].delay = p[j].delay /\ i <= j)

remove_at(p, i) == [j \in 1..(Len(p) - 1) |-> IF j < i THEN p[j] ELSE p[j + 1]]

-----------------------------------------------------------------------------
(* TurtleAdventureGame.init_game *)

PlayerStart(s) == [x |-> 50 * Scale, y |-> (s.h \div 2) * Scale]

init_game(s, seed) ==
    /\ screen = s
    /\ home = HomeInit(s)
    /\ running = TRUE
    /\ banners = <<>>
    /\ player = PlayerStart(s)
    /\ waypoint = [active |-> FALSE, x |-> 0, y |-> 0]
    /\ elements = <<Element("Waypoint"), Element("Home"), Element("Player")>>
    /\ enemies = <<>>
    /\ pending = Schedule
    /\ rng = [seed |-> seed, n |-> 0]
    /\ tick = 0
    /\ clicks = 0
    /\ ret = <<>>

SmallScreen == [w |-> SmallW, h |-> SmallH]

LargeScreen == [w |-> LargeW, h |-> LargeH]

Seeds == 0..MaxSeed

-----------------------------------------------------------------------------
(* Actions *)

\* the points a click lands on in the whole game: Home's centre, a point
\* inside Home near its corner, and the playfield's far corner
GameTargets ==
    { <<home.x, home.y>>,
      <<home.x - Half(home.size) + 6 * Scale, home.y - Half(home.size) + 2 * Scale>>,
      <<(screen.w - 1) * Scale, (screen.h - 1) * Scale>> }

\* the points a click lands on in the Player's scenarios: Home's centre,
\* Home's corner, the Player's own cell (distance 0), a point 3 units right
\* of it (nearer than one step), and the playfield's far corner
PlayerTargets ==
    { <<home.x, home.y>>,
      <<home.x - Half(home.size), home.y - Half(home.size)>>,
      <<(player.x \div Scale) * Scale, (player.y \div Scale) * Scale>>,
      <<(player.x \div Scale + 3) * Scale, (player.y \div Scale) * Scale>>,
      <<(screen.w - 1) * Scale, (screen.h - 1) * Scale>> }

\* canvas.bind("<Button-1>", lambda e: self.waypoint.activate(e.x, e.y))
ClickOn(targets) ==
    /\ clicks < MaxClicks
    /\ \E t \in targets : waypoint' = activate(t[1], t[2])
    /\ clicks' = clicks + 1
    /\ tick' = 0
    /\ UNCHANGED <<screen, home, running, banners, player, elements, enemies,
                   pending, rng, ret>>

\* the effect of one Game.animate on the game's state
AnimateStep ==
    /\ running
    /\ LET g == animate(Game)
       IN /\ running' = g.running
          /\ banners' = g.banners
          /\ player' = g.player
          /\ waypoint' = g.waypoint
          /\ elements' = g.elements
    /\ UNCHANGED <<screen, home, enemies, pending, rng, clicks, ret>>

TickUpTo(maxTick) ==
    /\ tick < maxTick
    /\ AnimateStep
    /\ tick' = tick + 1

\* a timer registered by EnemyGenerator.__init__ fires, once
FireTimer ==
    /\ pending # <<>>
    /\ LET i == next_timer(pending)
           r == run_timer(pending[i].action, elements, rng, home)
       IN /\ elements' = r.elements
          /\ rng' = r.rng
          /\ pending' = remove_at(pending, i)
    /\ UNCHANGED <<screen, home, running, banners, player, waypoint, enemies,
                   tick, clicks, ret>>

-----------------------------------------------------------------------------
(* The whole game on the small playfield *)

Init == \E seed \in Seeds : init_game(SmallScreen, seed)

Click == ClickOn(GameTargets)

Tick == TickUpTo(MaxTick)

Next == Click \/ Tick \/ FireTimer

Spec == Init /\ [][Next]_vars

-----------------------------------------------------------------------------
\* C1: the terminal state is one-way: every terminal call that takes effect
\* in a run announces the same outcome (a won game is never afterwards lost,
\* a lost game never afterwards won)
C1_TerminalOneWay == \A i \in 1..Len(banners) : banners[i] = banners[1]

-----------------------------------------------------------------------------
(* Counting the registered enemies *)

KindCount(kind) == Cardinality({i \in 1..Len(elements) : elements[i].kind = kind})

EnemyCount == Cardinality({i \in 1..Len(elements) : elements[i].kind \in EnemyKinds})

\* number of the generator's timers that have fired
Fired == Len(Schedule) - Len(pending)

\* C10: the four spawn actions fire once each in ascending order of delay
\* (walkers, chasers, sentinels, fencers), each registering its fixed count
\* (5, 4, 5, 3), so that 17 enemies are registered once all four have fired
C10_ScheduleOnceInOrder ==
    /\ Fired \in 0..4
    /\ pending = SubSeq(Schedule, Fired + 1, Len(Schedule))
    /\ \A i \in 1..(Len(pending) - 1) : pending[i].delay < pending[i + 1].delay
    /\ KindCount("Enemy_walk_random") = (IF Fired >= 1 THEN 5 ELSE 0)
    /\ KindCount("Chasing_Enemy") = (IF Fired >= 2 THEN 4 ELSE 0)
    /\ KindCount("Stealth_Circle") = (IF Fired >= 3 THEN 5 ELSE 0)
    /\ KindCount("FencingEnemy") = (IF Fired >= 4 THEN 3 ELSE 0)
    /\ Len(elements) = 3 + EnemyCount
    /\ (Fired = 4 => EnemyCount = 17)

\* all four timers have fired in a game that is still running and ticking
C10_Witness == pending = <<>> /\ running /\ tick > 0 /\ EnemyCount = 17

-----------------------------------------------------------------------------
(* The Player alone: the game before any generator timer fires *)

InitPlayer == init_game(SmallScreen, 0) \/ init_game(LargeScreen, 0)

InitPlayerSmall == init_game(SmallScreen, 0)

ClickPlayer == ClickOn(PlayerTargets)

TickPlayer == TickUpTo(PlayerTickCap)

NextPlayer == ClickPlayer \/ TickPlayer

SpecPlayer == InitPlayer /\ [][NextPlayer]_vars

\* Game.animate reschedules itself after every tick while the game runs
LiveSpecPlayer == InitPlayerSmall /\ [][NextPlayer]_vars /\ WF_vars(TickPlayer)

Won == banners # <<>> /\ banners[1] = "You Win"

Lost == banners # <<>> /\ banners[1] = "You Lose"

WinCalls == Cardinality({i \in 1..Len(banners) : banners[i] = "You Win"})

\* the Player is within one step (speed) of the waypoint
WithinSpeed(p, w) ==
    Dist2(p.x, p.y, w.x, w.y) < (PlayerSpeed * Scale) * (PlayerSpeed * Scale)

\* C2: after an activation the waypoint becomes inactive after finitely many
\* ticks unless the game ends first; it is deactivated only by a tick, and
\* at that moment the Player is nearer to the target than speed
C2_WaypointConverges ==
    /\ [](waypoint.active => <>(~waypoint.active \/ ~running))
    /\ [][(waypoint.active /\ ~waypoint'.active) =>
            (tick' = tick + 1 /\ WithinSpeed(player', waypoint'))]_vars

\* a waypoint activated on the Player's own position (distance 0) went
\* inactive two ticks later, the Player back on the target
C2_Witness ==
    /\ clicks = 1 /\ running /\ ~waypoint.active /\ tick = 2
    /\ waypoint.x = PlayerStart(screen).x /\ waypoint.y = PlayerStart(screen).y
    /\ player = PlayerStart(screen)

\* the Player's initial distance to Home's centre (init_game puts both on
\* the row screen_height // 2)
HomeDistance == home.x - PlayerStart(screen).x

\* the one click of the run was on Home's centre and the game is won
WonByOneClickOnHome ==
    Won /\ clicks = 1 /\ waypoint.x = home.x /\ waypoint.y = home.y

\* C3 as stated: the won state is reached after exactly ceil(distance/speed)
\* ticks, and game_over_win is invoked exactly once
C3_WinAfterCeilDistance ==
    WonByOneClickOnHome =>
        /\ tick = CeilDiv(HomeDistance, PlayerSpeed * Scale)
        /\ WinCalls = 1

\* C3 amended: the won state is reached in tick
\* ceil((distance - size/2)/speed) + 1, the first tick that starts with the
\* Player inside Home, and game_over_win is invoked exactly once
C3_WinOnEnteringHome ==
    WonByOneClickOnHome =>
        /\ tick = CeilDiv(HomeDistance - Half(home.size), PlayerSpeed * Scale) + 1
        /\ WinCalls = 1
        /\ banners = <<"You Win">>

C3_Witness == WonByOneClickOnHome /\ screen = LargeScreen /\ ~running

-----------------------------------------------------------------------------
(* Scenarios: the game on the large playfield with given enemies added and *)
(* no generator timer pending                                              *)

Scenario(s, p, es) ==
    /\ screen = s
    /\ home = HomeInit(s)
    /\ running = TRUE
    /\ banners = <<>>
    /\ player = p
    /\ waypoint = [active |-> FALSE, x |-> 0, y |-> 0]
    /\ elements = add_elements(<<Element("Waypoint"), Element("Home"), Element("Player")>>, es)
    /\ enemies = <<>>
    /\ pending = <<>>
    /\ rng = [seed |-> 0, n |-> 0]
    /\ tick = 0
    /\ clicks = 0
    /\ ret = <<>>

TickScenario == TickUpTo(TickCap)

-----------------------------------------------------------------------------
(* A single Chasing_Enemy and a Player that never moves *)

\* positions EnemyGenerator.position can give (x in 200..600, y in 100..500)
ChaserStarts == { <<550, 250>>, <<200, 100>>, <<600, 500>>, <<350, 475>>, <<200, 250>>,
                  <<450, 100>>, <<250, 500>>, <<600, 300>>, <<333, 177>> }

InitChaser ==
    \E c \in ChaserStarts :
        Scenario(LargeScreen, PlayerStart(LargeScreen), <<place(Chasing_Enemy(20, "red"), c[1] * Scale, c[2] * Scale)>>)

SpecChaser == InitChaser /\ [][TickScenario]_vars

Chaser == elements[4]

\* squared distance from the Chaser to the Player
ChaserDist2 == Dist2(Chaser.x, Chaser.y, player.x, player.y)

\* squared initial distance D from the Chaser to the Player
ChaserStartDist2 == Dist2(Chaser.ox, Chaser.oy, player.x, player.y)

\* the Player is strictly inside the Chaser's size x size hit-box
InChaserBox ==
    /\ 2 * Abs(player.x - Chaser.x) < Chaser.size * Scale
    /\ 2 * Abs(player.y - Chaser.y) < Chaser.size * Scale

\* C4 as stated, last part: the lost state is not entered before the Chaser
\* is within one step (1.2 units) of the Player
C4_LostOnlyWithinOneStep == Lost => ChaserDist2 <= ChaseStep * ChaseStep

\* C4 amended: the Chaser gets closer on every tick; the game is lost within
\* ceil(D/1.2) ticks (while it runs, 1.2 * tick < D); and the lost state is
\* entered exactly when the Player is strictly inside the Chaser's hit-box,
\* the Chaser still more than one step away
C4_ChaserCatchesAtHitBox ==
    /\ [][tick' = tick + 1 => ChaserDist2' < ChaserDist2]_vars
    /\ [](running => (ChaseStep * tick) * (ChaseStep * tick) < ChaserStartDist2)
    /\ [](Lost <=> ~running)
    /\ [](Lost <=> InChaserBox)
    /\ [](Lost => ChaserDist2 > ChaseStep * ChaseStep)

\* the Chaser that started 500 units away has caught the Player
C4_Witness ==
    /\ Lost /\ InChaserBox /\ tick > 400
    /\ ChaserStartDist2 = (500 * Scale) * (500 * Scale)

-----------------------------------------------------------------------------
(* The three FencingEnemy of create_fencing_enemy, on either playfield *)

Fencers(s) == create_fencing_enemy(<<>>, [seed |-> 0, n |-> 0], HomeInit(s)).elements

InitFencer ==
    \E s \in {SmallScreen, LargeScreen} : Scenario(s, PlayerStart(s), Fencers(s))

SpecFencer == InitFencer /\ [][TickScenario]_vars

FencerIndexes == {i \in 1..Len(elements) : elements[i].kind = "FencingEnemy"}

NextPhase(state) ==
    CASE state = "moving_right" -> "moving_down"
      [] state = "moving_down"  -> "moving_left"
      [] state = "moving_left"  -> "moving_up"
      [] state = "moving_up"    -> "moving_right"

\* C5: a FencingEnemy started on Home's corner changes state only to the
\* next phase of right, down, left, up, right, and whenever it re-enters
\* moving-right it is exactly on the starting corner, for speeds 1, 3 and 4
C5_FencerCycle ==
    [][\A i \in FencerIndexes :
          elements'[i].state # elements[i].state =>
              /\ elements'[i].state = NextPhase(elements[i].state)
              /\ (elements'[i].state = "moving_right" =>
                    /\ elements'[i].x = home.x - Half(home.size)
                    /\ elements'[i].y = home.y - Half(home.size))]_vars

\* the fencer of speed 3 (which does not divide Home's side) is back in
\* moving-right on its corner after one whole cycle of 32 ticks
C5_Witness ==
    \E i \in FencerIndexes :
        /\ elements[i].speed = 3 /\ elements[i].state = "moving_right"
        /\ elements[i].x = elements[i].ox /\ elements[i].y = elements[i].oy
        /\ tick = 32

-----------------------------------------------------------------------------
(* A Stealth_Circle and a Player that walks past it *)

\* positions EnemyGenerator.position can give
SentinelStarts == { <<200, 330>>, <<200, 250>>, <<400, 300>> }

InitStealth ==
    \E c \in SentinelStarts :
        Scenario(LargeScreen, PlayerStart(LargeScreen), <<place(Stealth_Circle(50, "white", 6), c[1] * Scale, c[2] * Scale)>>)

\* clicks on Home's centre and on the playfield's far corner
StealthTargets ==
    { <<home.x, home.y>>, <<(screen.w - 1) * Scale, (screen.h - 1) * Scale>> }

ClickStealth == ClickOn(StealthTargets)

NextStealth == ClickStealth \/ TickPlayer

SpecStealth == InitStealth /\ [][NextStealth]_vars

SentinelIndexes == {i \in 1..Len(elements) : elements[i].kind = "Stealth_Circle"}

SentinelDist2(i) == Dist2(player.x, player.y, elements[i].x, elements[i].y)

\* C6: after every Stealth_Circle.update, detected is true exactly when the
\* distance from the sentinel to the Player is strictly less than 100
C6_DetectedIffNear ==
    [][tick' = tick + 1 =>
          \A i \in SentinelIndexes :
              elements'[i].detected <=> (SentinelDist2(i)' < (100 * Scale) * (100 * Scale))]_vars

\* the Player has crossed the circle and stands at distance exactly 100 on
\* its far side: the sentinel, alerted on the way, is dormant again
C6_Witness ==
    \E i \in SentinelIndexes :
        /\ tick > 0 /\ running /\ ~elements[i].detected
        /\ SentinelDist2(i) = (100 * Scale) * (100 * Scale)
        /\ player.x > elements[i].x

-----------------------------------------------------------------------------
(* Enemy.hits_player called directly, for each enemy class as the          *)
(* generator builds it, with the Player on and around the hit-box's edges  *)

GeneratedEnemies ==
    { Enemy_walk_random(20, "Blue", 6), Chasing_Enemy(20, "red"),
      FencingEnemy(10, "yellow", 1), Stealth_Circle(50, "white", 6) }

\* offsets in tenths of a unit: the centre, each edge, a tenth inside and a
\* tenth outside each edge of a square of half-side half
EdgeOffsets(half) == {-half - 1, -half, -half + 1, 0, half - 1, half, half + 1}

InitHits ==
    \E e \in GeneratedEnemies :
        \E dx \in EdgeOffsets(Half(e.size)), dy \in EdgeOffsets(Half(e.size)) :
            Scenario(LargeScreen,
                     [x |-> 300 * Scale + dx, y |-> 200 * Scale + dy],
                     <<place(e, 300 * Scale, 200 * Scale)>>)

CallHitsPlayer ==
    /\ ret = <<>>
    /\ ret' = <<hits_player(elements[4], player)>>
    /\ UNCHANGED <<screen, home, running, banners, player, waypoint, elements,
                   enemies, pending, rng, tick, clicks>>

SpecHits == InitHits /\ [][CallHitsPlayer]_vars

\* C7: hits_player() is true exactly when the Player is strictly inside the
\* enemy's hit-box on both axes; on an edge or a corner it is false
C7_HitsIffStrictlyInside ==
    ret # <<>> =>
        (ret[1] <=> /\ 2 * Abs(player.x - elements[4].x) < elements[4].size * Scale
                    /\ 2 * Abs(player.y - elements[4].y) < elements[4].size * Scale)

\* the Player exactly on the right edge of a sentinel's hit-box: no hit
C7_Witness ==
    /\ ret = <<FALSE>>
    /\ elements[4].kind = "Stealth_Circle"
    /\ player.x = elements[4].x + 25 * Scale
    /\ player.y = elements[4].y

-----------------------------------------------------------------------------
(* Home.contains called directly with points on and around Home's boundary *)

\* offsets in tenths of a unit: the centre, each edge, a tenth and a whole
\* unit outside each edge of a square of half-side half
BoundaryOffsets(half) ==
    {-half - Scale, -half - 1, -half, 0, half, half + 1, half + Scale}

InitHome ==
    \E s \in {SmallScreen, LargeScreen} :
        \E dx \in BoundaryOffsets(Half(HomeInit(s).size)),
           dy \in BoundaryOffsets(Half(HomeInit(s).size)) :
            Scenario(s, [x |-> HomeInit(s).x + dx, y |-> HomeInit(s).y + dy], <<>>)

CallContains ==
    /\ ret = <<>>
    /\ ret' = <<contains(home, player.x, player.y)>>
    /\ UNCHANGED <<screen, home, running, banners, player, waypoint, elements,
                   enemies, pending, rng, tick, clicks>>

SpecHome == InitHome /\ [][CallContains]_vars

\* C8: Home.contains(x, y) is true exactly when |x - home.x| <= size/2 and
\* |y - home.y| <= size/2
C8_ContainsIffWithinHalf ==
    ret # <<>> =>
        (ret[1] <=> /\ 2 * Abs(player.x - home.x) <= home.size * Scale
                    /\ 2 * Abs(player.y - home.y) <= home.size * Scale)

\* a point exactly on Home's corner is contained
C8_Witness ==
    /\ ret = <<TRUE>>
    /\ player.x = home.x + 10 * Scale
    /\ player.y = home.y - 10 * Scale

-----------------------------------------------------------------------------
(* The five Enemy_walk_random of create_random_enemy *)

Walkers(s, seed) == create_random_enemy(<<>>, [seed |-> seed, n |-> 0], HomeInit(s)).elements

InitWalker ==
    \E s \in {SmallScreen, LargeScreen}, seed \in Seeds :
        Scenario(s, PlayerStart(s), Walkers(s, seed))

SpecWalker == InitWalker /\ [][TickScenario]_vars

WalkerIndexes == {i \in 1..Len(elements) : elements[i].kind = "Enemy_walk_random"}

\* C9: in a tick a walker goes from moving-right to moving-left exactly when
\* its new x is greater than the playfield width, and from moving-left to
\* moving-right exactly when its new x is less than 0
C9_FlipAtBoundary ==
    [][tick' = tick + 1 =>
          \A i \in WalkerIndexes :
              /\ elements[i].state = "moving_right" =>
                    (elements'[i].state = "moving_left" <=> elements'[i].x > screen.w * Scale)
              /\ elements[i].state = "moving_left" =>
                    (elements'[i].state = "moving_right" <=> elements'[i].x < 0)
              /\ elements'[i].state \in {"moving_right", "moving_left"}]_vars

\* a walker has crossed the playfield leftwards and has just turned right
\* below x = 0
C9_Witness ==
    \E i \in WalkerIndexes :
        /\ screen = LargeScreen /\ tick > 0
        /\ elements[i].state = "moving_right" /\ elements[i].x < 0

-----------------------------------------------------------------------------
(* Generator timers and the end of the game *)

\* C11: a generator timer that fires after the game has been won or lost
\* adds no element and changes no game state
C11_TimerAfterEndIsNoOp ==
    [][(~running /\ pending' # pending) =>
          /\ elements' = elements
          /\ UNCHANGED <<screen, home, running, banners, player, waypoint, enemies>>]_vars

-----------------------------------------------------------------------------
(* The enemy constructors called directly, with valid and invalid          *)
(* parameters, each followed by add_element as in the generator            *)

MaxBuilt == 2

Sizes == {-20, -1, 0, 10, 20}

Speeds == {-4, -1, 0, 1, 3}

\* the constructor of class kind; none of them raises
construct(kind, size, speed, r) ==
    CASE kind = "Enemy_walk_random" -> Enemy_walk_random(size, "Blue", randint(r, 0, 6, 10))
      [] kind = "Chasing_Enemy"     -> Chasing_Enemy(size, "red")
      [] kind = "FencingEnemy"      -> FencingEnemy(size, "yellow", speed)
      [] kind = "Stealth_Circle"    -> Stealth_Circle(size, "white", randint(r, 0, 6, 10))

InitConstruct == Scenario(SmallScreen, PlayerStart(SmallScreen), <<>>)

ConstructEnemy ==
    /\ Len(elements) < 3 + MaxBuilt
    /\ \E kind \in EnemyKinds, size \in Sizes :
         \E speed \in IF kind = "FencingEnemy" THEN Speeds ELSE {0} :
            LET e == construct(kind, size, speed, rng)
            IN /\ ret' = <<e>>
               /\ elements' = add_element(elements, e)
    /\ rng' = [rng EXCEPT !.n = @ + 1]
    /\ UNCHANGED <<screen, home, running, banners, player, waypoint, enemies,
                   pending, tick, clicks>>

SpecConstruct == InitConstruct /\ [][ConstructEnemy]_vars

\* C12: no enemy with a negative size, and no FencingEnemy with a negative
\* speed, is constructed and registered with the game
C12_InvalidEnemyRejected ==
    \A i \in 1..Len(elements) :
        elements[i].kind \in EnemyKinds =>
            /\ elements[i].size >= 0
            /\ elements[i].kind = "FencingEnemy" => elements[i].speed >= 0

-----------------------------------------------------------------------------
(* Player.update: what a tick leaves alone *)

\* C13: a tick that starts with the Player inside Home signals the win and
\* leaves the Player's position and the waypoint's active flag unchanged
C13_WinTickMovesNothing ==
    [][(tick' = tick + 1 /\ contains(home, player.x, player.y)) =>
          /\ banners' = Append(banners, "You Win")
          /\ player' = player
          /\ waypoint'.active = waypoint.active]_vars

\* C14: a tick that starts with the waypoint inactive leaves the Player where
\* it is and the waypoint inactive; the Player moves only while the waypoint
\* is active, and only a click activates the waypoint
C14_InactiveWaypointFreezesPlayer ==
    [][/\ (tick' = tick + 1 /\ ~waypoint.active) =>
              (player' = player /\ ~waypoint'.active)
       /\ player' # player => (waypoint.active /\ tick' = tick + 1)
       /\ (~waypoint.active /\ waypoint'.active) => clicks' = clicks + 1]_vars

\* the Player has arrived at a waypoint 3 units away in one step, and a tick
\* has run since with the waypoint inactive
C14_Witness ==
    /\ running /\ clicks = 1 /\ tick = 2
    /\ ~waypoint.active
    /\ waypoint.x = 53 * Scale
    /\ player.x = 55 * Scale

-----------------------------------------------------------------------------
(* A Chasing_Enemy near the Player's start, and a Player that may step     *)
(* onto it                                                                 *)

\* the Chaser's offset from the Player's start, in world units, on each axis
NearOffsets == {-20, -5, 0, 5, 20}

InitChaserNear ==
    \E dx \in NearOffsets, dy \in NearOffsets :
        Scenario(LargeScreen, PlayerStart(LargeScreen),
                 <<place(Chasing_Enemy(20, "red"),
                         PlayerStart(LargeScreen).x + dx * Scale,
                         PlayerStart(LargeScreen).y + dy * Scale)>>)

\* a click 3 units right of the Player: one step of 5 ends 5 units right
ChaserNearTargets == { <<(player.x \div Scale + 3) * Scale, (player.y \div Scale) * Scale>> }

ClickChaserNear == ClickOn(ChaserNearTargets)

NextChaserNear == ClickChaserNear \/ TickScenario

SpecChaserNear == InitChaserNear /\ [][NextChaserNear]_vars

\* C15: when the Chaser is exactly on the Player at the start of its update
\* (zero direction vector) the update completes, leaves the Chaser where it
\* is, and reports the hit
C15_ZeroVectorLeavesChaser ==
    [][(tick' = tick + 1 /\ elements[4].x = player'.x /\ elements[4].y = player'.y) =>
          /\ elements'[4].x = elements[4].x
          /\ elements'[4].y = elements[4].y
          /\ banners' = Append(banners, "You Lose")]_vars

\* the Player has stepped onto a Chaser 5 units to its right; the Chaser's
\* update ran with a zero direction vector and the Chaser is where it started
C15_Witness ==
    /\ tick = 1 /\ clicks = 1
    /\ player.x = PlayerStart(LargeScreen).x + 5 * Scale
    /\ elements[4].x = player.x /\ elements[4].y = player.y
    /\ elements[4].x = elements[4].ox /\ elements[4].y = elements[4].oy
    /\ banners = <<"You Lose">>

-----------------------------------------------------------------------------
(* The generator's fencers and Home's square *)

\* C16: every generated FencingEnemy is always on the perimeter of Home's
\* square: inside the square on both axes, and on one of its edges
C16_FencerOnPerimeter ==
    \A i \in FencerIndexes :
        LET e == elements[i]
            x1 == home.x - Half(home.size)
            x2 == home.x + Half(home.size)
            y1 == home.y - Half(home.size)
            y2 == home.y + Half(home.size)
        IN /\ x1 <= e.x /\ e.x <= x2
           /\ y1 <= e.y /\ e.y <= y2
           /\ e.x = x1 \/ e.x = x2 \/ e.y = y1 \/ e.y = y2

\* the fencer is inside Home's square widened by less than one step on the
\* right and at the bottom
FencerWithinOneStep(e) ==
    /\ home.x - Half(home.size) <= e.x
    /\ e.x < home.x + Half(home.size) + e.speed * Scale
    /\ home.y - Half(home.size) <= e.y
    /\ e.y < home.y + Half(home.size) + e.speed * Scale

\* C20: a FencingEnemy started on Home's corner is always within Home's
\* square widened by less than one step, and in each tick it either moves
\* by exactly speed along one axis or changes state without moving
C20_FencerWithinOneStep ==
    /\ [](\A i \in FencerIndexes : FencerWithinOneStep(elements[i]))
    /\ [][tick' = tick + 1 =>
             \A i \in FencerIndexes :
                 LET a == elements[i]
                     b == elements'[i]
                 IN \/ /\ b.state = a.state
                       /\ Abs(b.x - a.x) + Abs(b.y - a.y) = a.speed * Scale
                       /\ b.x = a.x \/ b.y = a.y
                    \/ /\ b.state # a.state
                       /\ b.x = a.x /\ b.y = a.y]_vars

\* the fencer of speed 3 has overshot Home's right edge by one unit and has
\* turned to moving-down there
C20_Witness ==
    \E i \in FencerIndexes :
        /\ elements[i].speed = 3 /\ elements[i].state = "moving_down"
        /\ elements[i].x = home.x + Half(home.size) + 1 * Scale
        /\ tick > 0

-----------------------------------------------------------------------------
(* The coordinator's enemies list *)

\* C17: every enemy in the element collection is also in the enemies list,
\* which holds 17 entries once all four batches have been created
C17_EnemiesListed ==
    /\ Len(enemies) = EnemyCount
    /\ pending = <<>> => Len(enemies) = 17

-----------------------------------------------------------------------------
(* The walkers' vertical states *)

\* C18 as stated: in moving_down y increases and the state is left only above
\* the playfield height; in moving_up y decreases and the state is left only
\* below 0
C18_DownIncreasesY ==
    [][tick' = tick + 1 =>
          \A i \in WalkerIndexes :
              LET a == elements[i]
                  b == elements'[i]
              IN /\ a.state_height = "moving_down" =>
                       /\ b.y > a.y
                       /\ b.state_height # "moving_down" => b.y > screen.h * Scale
                 /\ a.state_height = "moving_up" =>
                       /\ b.y < a.y
                       /\ b.state_height # "moving_up" => b.y < 0]_vars

\* C18: in moving_down y decreases by speed - 1 in every tick and the state
\* is left exactly in a tick whose new y is below 0; in moving_up y
\* increases by speed + 1 and the state is left exactly in a tick whose new
\* y is above the playfield height
C18_DownDecreasesY ==
    [][tick' = tick + 1 =>
          \A i \in WalkerIndexes :
              LET a == elements[i]
                  b == elements'[i]
              IN /\ a.state_height = "moving_down" =>
                       /\ b.y = a.y - (a.speed - 1) * Scale
                       /\ b.state_height = "moving_up" <=> b.y < 0
                 /\ a.state_height = "moving_up" =>
                       /\ b.y = a.y + (a.speed + 1) * Scale
                       /\ b.state_height = "moving_down" <=> b.y > screen.h * Scale
                 /\ b.state_height \in {"moving_down", "moving_up"}]_vars

\* a walker has come down to y < 0 in moving_down and has just turned to
\* moving_up
C18_Witness ==
    \E i \in WalkerIndexes :
        /\ tick > 0
        /\ elements[i].state_height = "moving_up" /\ elements[i].y < 0

-----------------------------------------------------------------------------
(* Walkers spawned inside a playfield of at least 600 x 500 *)

MinW == 600

MinH == 500

MinScreen == [w |-> MinW, h |-> MinH]

WalkerSpeeds == 6..10

\* the corners and the middle of the region EnemyGenerator.position draws from
SpawnPoints == { <<200, 100>>, <<600, 100>>, <<200, 500>>, <<600, 500>>, <<400, 300>> }

\* one walker of each speed, all on spawn point c
WalkersAt(c) ==
    [i \in 1..5 |-> place(Enemy_walk_random(20, "Blue", 5 + i), c[1] * Scale, c[2] * Scale)]

InitWalkerInside ==
    \E s \in {MinScreen, LargeScreen} :
        \/ \E seed \in Seeds : Scenario(s, PlayerStart(s), Walkers(s, seed))
        \/ \E c \in SpawnPoints : Scenario(s, PlayerStart(s), WalkersAt(c))

SpecWalkerInside == InitWalkerInside /\ [][TickScenario]_vars

\* C19: a walker spawned inside the playfield stays within
\* 1 - speed <= x <= width + speed + 1 and 1 - speed <= y <= height + speed + 1
C19_WalkerStaysInside ==
    \A i \in WalkerIndexes :
        LET e == elements[i]
        IN /\ e.speed \in WalkerSpeeds
           /\ (1 - e.speed) * Scale <= e.x /\ e.x <= (screen.w + e.speed + 1) * Scale
           /\ (1 - e.speed) * Scale <= e.y /\ e.y <= (screen.h + e.speed + 1) * Scale

\* a walker has stepped from the right edge to the bound itself,
\* x = width + speed + 1, and has turned to moving_left there
C19_Witness ==
    \E i \in WalkerIndexes :
        /\ tick > 0
        /\ elements[i].x = (screen.w + elements[i].speed + 1) * Scale
        /\ elements[i].state = "moving_left"

-----------------------------------------------------------------------------
(* A sentinel that catches the Player *)

\* C21: in every tick in which a Stealth_Circle calls game_over_lose (the
\* Player is strictly inside its hit-box after its update), its detected
\* flag is true
C21_LoseOnlyWhenAlerted ==
    [][tick' = tick + 1 =>
          \A i \in SentinelIndexes :
              hits_player(elements'[i], player') =>
                  /\ elements'[i].detected
                  /\ banners' = Append(banners, "You Lose")]_vars

\* the Player has walked into the sentinel's hit-box and the game is lost,
\* with the sentinel alerted
C21_Witness ==
    \E i \in SentinelIndexes :
        /\ tick > 0 /\ clicks = 1
        /\ banners = <<"You Lose">>
        /\ hits_player(elements[i], player)
        /\ elements[i].detected

====
